---- MODULE Spec2Model ----
(***************************************************************************)
(* CRSF ground-station control core (Raspberry/main.cpp): the channel      *)
(* store, the command-file parser, the joystick axis mapping and the main  *)
(* loop that emits the 16 channels to the CRSF transport, and the thread   *)
(* that writes the telemetry file.                                         *)
(*                                                                         *)
(* The blocks of main() under "#if USE_CRSF_SEND == true" are modelled as  *)
(* compiled in (config.h is not part of the sources at hand).              *)
(***************************************************************************)
EXTENDS Integers, Sequences, FiniteSets, TLC

(***************************************************************************)
(* Program constants (namespace Constants).                                *)
(***************************************************************************)
CRSF_SEND_PERIOD_MS == 10
TELEMETRY_UPDATE_MS == 20
CHANNEL_MIN == 1000
CHANNEL_MAX == 2000
CHANNEL_COUNT == 16
JOYSTICK_AXIS_MIN == -32768
JOYSTICK_AXIS_MAX == 32767
JOYSTICK_SCALE_FACTOR == 500
JOYSTICK_DEADZONE == 100
DEFAULT_CHANNEL_VALUE == 1500
DEFAULT_THROTTLE_VALUE == 1000
\* minimal spacing of an expedited send ("timeSinceLastSend >= 2")
EXPEDITE_MIN_MS == 2

(***************************************************************************)
(* Machine integers.  int is 32 bits wide; a uint32_t / unsigned int is    *)
(* kept as two 16-bit halves [hi, lo] so that values of 2^31 and above and *)
(* the wrap-around of the arithmetic are represented exactly.              *)
(***************************************************************************)
INT_MAX == 2147483647
Half == 65536

U32Of(n) == [hi |-> n \div Half, lo |-> n % Half]

\* conversion int -> unsigned int (value modulo 2^32)
U32FromInt(i) ==
  IF i >= 0 THEN U32Of(i)
  ELSE LET j == (i + INT_MAX) + 1
       IN  [hi |-> 32768 + (j \div Half), lo |-> j % Half]

\* conversion unsigned int -> int (two's complement)
U32ToInt32(a) ==
  IF a.hi < 32768 THEN a.hi * Half + a.lo
  ELSE (a.hi - Half) * Half + a.lo

\* a - b in uint32_t arithmetic
U32Sub(a, b) ==
  LET lo == a.lo - b.lo
      borrow == IF lo < 0 THEN 1 ELSE 0
  IN  [hi |-> (a.hi - b.hi - borrow) % Half, lo |-> lo % Half]

\* a + n in uint32_t arithmetic, 0 <= n < 2^16
U32Add(a, n) ==
  LET s == a.lo + n
  IN  [hi |-> (a.hi + (s \div Half)) % Half, lo |-> s % Half]

\* a >= n and a <= n for a small constant n
U32Ge(a, n) == a.hi > 0 \/ a.lo >= n
U32Le(a, n) == a.hi = 0 /\ a.lo <= n

\* a * 10 + d in uint32_t arithmetic, with the carry out of 32 bits
U32MulAdd10(a, d) ==
  LET lo == a.lo * 10 + d
      hi == a.hi * 10 + (lo \div Half)
  IN  [val |-> [hi |-> hi % Half, lo |-> lo % Half], carry |-> hi >= Half]

(***************************************************************************)
(* Text.  A string is a sequence of one-character strings.                 *)
(***************************************************************************)
IsSpace(c) == c \in {" ", "\t", "\r", "\n"}
IsDigit(c) == c \in {"0", "1", "2", "3", "4", "5", "6", "7", "8", "9"}
DigitVal(c) ==
  CASE c = "0" -> 0 [] c = "1" -> 1 [] c = "2" -> 2 [] c = "3" -> 3
    [] c = "4" -> 4 [] c = "5" -> 5 [] c = "6" -> 6 [] c = "7" -> 7
    [] c = "8" -> 8 [] c = "9" -> 9

\* std::string::substr(pos) / substr(0, n), 0-based positions
SubstrFrom(s, pos) == SubSeq(s, pos + 1, Len(s))
SubstrTo(s, n) == SubSeq(s, 1, n)

\* std::string::find(c): 0-based position of the first c, or -1 (npos)
RECURSIVE FindFrom(_, _, _)
FindFrom(s, c, i) ==
  IF i > Len(s) THEN -1
  ELSE IF s[i] = c THEN i - 1
  ELSE FindFrom(s, c, i + 1)

find(s, c) == FindFrom(s, c, 1)

\* first 1-based index >= i that holds no white space (Len+1 at the end)
RECURSIVE SkipSpace(_, _)
SkipSpace(s, i) ==
  IF i > Len(s) THEN i
  ELSE IF IsSpace(s[i]) THEN SkipSpace(s, i + 1)
  ELSE i

\* first 1-based index >= i that holds white space (Len+1 at the end)
RECURSIVE SkipWord(_, _)
SkipWord(s, i) ==
  IF i > Len(s) THEN i
  ELSE IF IsSpace(s[i]) THEN i
  ELSE SkipWord(s, i + 1)

\* the successive results of "iss >> token" on an istringstream over s
RECURSIVE TokensFrom(_, _)
TokensFrom(s, i) ==
  LET b == SkipSpace(s, i)
      e == SkipWord(s, b)
  IN  IF b > Len(s) THEN << >>
      ELSE << SubSeq(s, b, e - 1) >> \o TokensFrom(s, e)

Tokens(s) == TokensFrom(s, 1)

\* startsWith(): str.compare(0, prefix.length(), prefix) == 0
startsWith(str, prefix) ==
  /\ Len(str) >= Len(prefix)
  /\ SubSeq(str, 1, Len(prefix)) = prefix

(***************************************************************************)
(* Decimal conversion shared by stoi (strtol) and sscanf: an optional sign *)
(* and the longest run of digits starting at index i.  The magnitude is    *)
(* accumulated modulo 2^32; over says that it reached 2^32.                *)
(***************************************************************************)
RECURSIVE ScanDigits(_, _, _, _, _)
ScanDigits(s, i, mag, over, count) ==
  IF i > Len(s) \/ ~IsDigit(s[i])
  THEN [mag |-> mag, over |-> over, count |-> count, next |-> i]
  ELSE LET m == U32MulAdd10(mag, DigitVal(s[i]))
       IN  ScanDigits(s, i + 1, m.val, over \/ m.carry, count + 1)

ScanNumber(s, i) ==
  LET b == SkipSpace(s, i)
      signed == b <= Len(s) /\ s[b] \in {"+", "-"}
      neg == b <= Len(s) /\ s[b] = "-"
      d == ScanDigits(s, IF signed THEN b + 1 ELSE b, U32Of(0), FALSE, 0)
  IN  [neg |-> neg, mag |-> d.mag, over |-> d.over,
       found |-> d.count > 0, next |-> d.next]

\* the magnitude fits an int of the given sign
FitsInt(n) ==
  /\ ~n.over
  /\ \/ n.mag.hi < 32768
     \/ n.neg /\ n.mag = [hi |-> 32768, lo |-> 0]

IntOf(n) ==
  IF n.neg THEN U32ToInt32(U32Sub(U32Of(0), n.mag)) ELSE U32ToInt32(n.mag)

\* std::stoi: throws std::invalid_argument when there is no digit and
\* std::out_of_range when the value does not fit an int; text after the
\* digits is not looked at.
stoi(s) ==
  LET n == ScanNumber(s, 1)
  IN  IF n.found /\ FitsInt(n)
      THEN [thrown |-> FALSE, val |-> IntOf(n)]
      ELSE [thrown |-> TRUE, val |-> 0]

\* the values a conversion can take when the text holds a number that does
\* not fit a long: glibc converts through (unsigned) long and narrows, so
\* the outcome depends on the width of long in the build
LONG_BITS == {32, 64}

\* sscanf %u: strtoul, narrowed to unsigned int
ScanfU(n, bits) ==
  IF bits = 32 /\ n.over THEN [hi |-> 65535, lo |-> 65535]
  ELSE IF n.neg THEN U32Sub(U32Of(0), n.mag) ELSE n.mag

\* sscanf %d: strtol, narrowed to int
ScanfD(n, bits) ==
  IF bits = 32 /\ ~FitsInt(n)
  THEN (IF n.neg THEN (-INT_MAX) - 1 ELSE INT_MAX)
  ELSE IntOf(n)

kwSetChannels == <<"s", "e", "t", "C", "h", "a", "n", "n", "e", "l", "s">>
kwSetChannel == <<"s", "e", "t", "C", "h", "a", "n", "n", "e", "l">>
kwSendChannels == <<"s", "e", "n", "d", "C", "h", "a", "n", "n", "e", "l", "s">>
kwSetMode == <<"s", "e", "t", "M", "o", "d", "e">>

\* sscanf(cmd, "setChannel %u %d", &ch, &value): the literal text, then two
\* conversions, each after any amount of white space (none included); the
\* result counts the conversions made and what follows them is not read
sscanfSetChannel(cmd, bits) ==
  IF ~startsWith(cmd, kwSetChannel) THEN [count |-> 0, ch |-> U32Of(0), value |-> 0]
  ELSE LET a == ScanNumber(cmd, Len(kwSetChannel) + 1)
       IN  IF ~a.found THEN [count |-> 0, ch |-> U32Of(0), value |-> 0]
           ELSE LET b == ScanNumber(cmd, a.next)
                IN  IF ~b.found
                    THEN [count |-> 1, ch |-> ScanfU(a, bits), value |-> 0]
                    ELSE [count |-> 2, ch |-> ScanfU(a, bits),
                          value |-> ScanfD(b, bits)]

(***************************************************************************)
(* ChannelStore: currentChannels is an array indexed 0..15.                *)
(***************************************************************************)
ChannelIdx == 0 .. (CHANNEL_COUNT - 1)

\* the static initializer of currentChannels
StaticChannels == [i \in ChannelIdx |-> DEFAULT_CHANNEL_VALUE]

\* safeSetChannel with the lower bound of the value not tested
safeSetChannel_NoMin(chs, channel, value) ==
  IF /\ U32Ge(channel, 1) /\ U32Le(channel, CHANNEL_COUNT)
     /\ value <= CHANNEL_MAX
  THEN [chs EXCEPT ![channel.lo - 1] = value]
  ELSE chs

\* safeSetChannel with the upper bound of the value not tested
safeSetChannel_NoMax(chs, channel, value) ==
  IF /\ U32Ge(channel, 1) /\ U32Le(channel, CHANNEL_COUNT)
     /\ value >= CHANNEL_MIN
  THEN [chs EXCEPT ![channel.lo - 1] = value]
  ELSE chs

\* safeSetChannel writing currentChannels[channel]
safeSetChannel_OffByOne(chs, channel, value) ==
  IF /\ U32Ge(channel, 1) /\ U32Le(channel, CHANNEL_COUNT)
     /\ value >= CHANNEL_MIN /\ value <= CHANNEL_MAX
  THEN [i \in ChannelIdx |-> IF i = channel.lo THEN value ELSE chs[i]]
  ELSE chs

\* safeSetChannel(channel, value): the store after the call; channel is an
\* unsigned int
safeSetChannel(chs, channel, value) ==
  IF /\ U32Ge(channel, 1) /\ U32Le(channel, CHANNEL_COUNT)
     /\ value >= CHANNEL_MIN /\ value <= CHANNEL_MAX
  THEN [chs EXCEPT ![channel.lo - 1] = value]
  ELSE chs

\* the test safeSetChannel makes before it writes
Accepts(channel, value) ==
  /\ U32Ge(channel, 1) /\ U32Le(channel, CHANNEL_COUNT)
  /\ value >= CHANNEL_MIN /\ value <= CHANNEL_MAX

(***************************************************************************)
(* InputMapper.                                                            *)
(***************************************************************************)
\* conversion int -> int16_t
ToInt16(i) == ((i + 32768) % 65536) - 32768

\* C++ integer division truncates toward zero
TruncDiv(a, b) == IF a >= 0 THEN a \div b ELSE -((-a) \div b)

\* axisToUs with the shift the source's comment rules out: rounds down
axisToUs_Shift(value) ==
  IF value < JOYSTICK_DEADZONE /\ value > -JOYSTICK_DEADZONE THEN 1500
  ELSE LET scaled == value * JOYSTICK_SCALE_FACTOR
           result == 1500 + (scaled \div 32768)
       IN  IF result < CHANNEL_MIN THEN CHANNEL_MIN
           ELSE IF result > CHANNEL_MAX THEN CHANNEL_MAX
           ELSE result

\* axisToUs(int16_t value)
axisToUs(value) ==
  IF value < JOYSTICK_DEADZONE /\ value > -JOYSTICK_DEADZONE THEN 1500
  ELSE LET scaled == value * JOYSTICK_SCALE_FACTOR
           result == 1500 + TruncDiv(scaled, 32768)
       IN  IF result < CHANNEL_MIN THEN CHANNEL_MIN
           ELSE IF result > CHANNEL_MAX THEN CHANNEL_MAX
           ELSE result

(***************************************************************************)
(* CommandProtocol: parseCommand.  The result holds the store after the    *)
(* line, the value returned and the number of writes the store accepted.   *)
(***************************************************************************)
\* one pass of the while loop of the setChannels branch over a token
ApplyPair(st, token) ==
  LET pos == find(token, "=")
  IN  IF pos = -1 THEN st
      ELSE LET c == stoi(SubstrTo(token, pos))
               v == stoi(SubstrFrom(token, pos + 1))
           IN  IF c.thrown \/ v.thrown THEN st
               ELSE [chs |-> safeSetChannel(st.chs, U32FromInt(c.val), v.val),
                     writes |-> st.writes +
                       (IF Accepts(U32FromInt(c.val), v.val) THEN 1 ELSE 0)]

RECURSIVE ApplyPairs(_, _, _)
ApplyPairs(st, toks, k) ==
  IF k > Len(toks) THEN st
  ELSE ApplyPairs(ApplyPair(st, toks[k]), toks, k + 1)

parseCommand(chs, cmd, bits) ==
  IF cmd = << >> \/ cmd[1] = "#"
  THEN [ret |-> FALSE, chs |-> chs, writes |-> 0]
  ELSE IF startsWith(cmd, kwSetChannels)
  THEN LET st == ApplyPairs([chs |-> chs, writes |-> 0], Tokens(cmd), 2)
       IN  [ret |-> TRUE, chs |-> st.chs, writes |-> st.writes]
  ELSE IF startsWith(cmd, kwSetChannel)
  THEN LET r == sscanfSetChannel(cmd, bits)
       IN  IF r.count = 2
           THEN [ret |-> TRUE, chs |-> safeSetChannel(chs, r.ch, r.value),
                 writes |-> IF Accepts(r.ch, r.value) THEN 1 ELSE 0]
           ELSE [ret |-> TRUE, chs |-> chs, writes |-> 0]
  ELSE IF cmd = kwSendChannels
  THEN [ret |-> TRUE, chs |-> chs, writes |-> 0]
  ELSE IF startsWith(cmd, kwSetMode)
  THEN [ret |-> TRUE, chs |-> chs, writes |-> 0]
  ELSE [ret |-> FALSE, chs |-> chs, writes |-> 0]

(***************************************************************************)
(* Bounds of the model and the inputs drawn by the environment.            *)
(***************************************************************************)
\* the run is followed for MaxNow milliseconds after the first tick
MaxNow == 12
\* a pass of the loop (its work and rpi_delay_ms(1)) takes 1..MaxStep ms
MaxStep == 2
\* number of lines the producer puts in the command file during a run
MaxWrites == 2
\* number of tokens after the keyword of a parsed line
MaxTokens == 3

\* rpi_millis() at the first pass of the loop: 0, a value below one period,
\* and 2^32 - 3 (past one period; the counter wraps during the run)
StartClocks ==
  {U32Of(0), U32Of(5), [hi |-> 65535, lo |-> 65533]}

tok_1_1200 == <<"1", "=", "1", "2", "0", "0">>
tok_3_1800 == <<"3", "=", "1", "8", "0", "0">>
tok_99_1 == <<"9", "9", "=", "1">>
tok_1_abc == <<"1", "=", "a", "b", "c">>
tok_1_1200abc == <<"1", "=", "1", "2", "0", "0", "a", "b", "c">>
tok_16_2000 == <<"1", "6", "=", "2", "0", "0", "0">>
tok_m1_1500 == <<"-", "1", "=", "1", "5", "0", "0">>
tok_5 == <<"5">>
tok_1700 == <<"1", "7", "0", "0">>
tok_999 == <<"9", "9", "9">>
tok_abc == <<"a", "b", "c">>
\* 2^32 + 5
tok_4294967301 == <<"4", "2", "9", "4", "9", "6", "7", "3", "0", "1">>

ParseTokens ==
  {tok_1_1200, tok_3_1800, tok_99_1, tok_1_abc, tok_1_1200abc, tok_16_2000,
   tok_m1_1500, tok_5, tok_1700, tok_999, tok_abc, tok_4294967301}

\* a keyword followed by tokens, separated by single blanks
RECURSIVE Join(_, _, _)
Join(line, toks, k) ==
  IF k > Len(toks) THEN line
  ELSE Join(line \o <<" ">> \o toks[k], toks, k + 1)

Line(kw, toks) == Join(kw, toks, 1)

ParseKeywords == {kwSetChannels, kwSetChannel}

TokenLists == UNION {[1 .. n -> ParseTokens] : n \in 0 .. MaxTokens}

ParseLines == {Line(kw, toks) : kw \in ParseKeywords, toks \in TokenLists}

\* lines that begin with something else: nothing, a comment mark, the two
\* other keywords, and words that only begin with a keyword
kwSetChannelsX == kwSetChannels \o <<"X">>
kwSetModeX == kwSetMode \o <<"X">>
kwsetchannel == <<"s", "e", "t", "c", "h", "a", "n", "n", "e", "l">>

OtherKeywords ==
  {<< >>, <<"#">>, kwSendChannels, kwSetMode, kwSetChannelsX, kwSetModeX,
   kwsetchannel}

OtherLines ==
  {Line(kw, toks) : kw \in OtherKeywords,
                    toks \in {<< >>} \cup {<<t>> : t \in ParseTokens}}

\* the lines the producer writes while the loop runs
ProducerLines ==
  {Line(kwSetChannel, <<tok_5, tok_1700>>),
   Line(kwSetChannels, <<tok_1_1200, tok_3_1800, tok_99_1, tok_1_abc>>),
   Line(kwSetChannel, <<tok_5, tok_999>>),
   <<"h", "e", "l", "l", "o">>}

\* arguments of direct calls of safeSetChannel (the index as the int the
\* caller holds before the conversion to unsigned)
IndexArgs == {(-INT_MAX) - 1, -1, 0, 1, 2, 16, 17, INT_MAX}
ValueArgs == {-1, 999, 1000, 1700, 2000, 2001}

\* raw axis samples
AxisSamples == {-32768, -100, -99, 0, 99, 100, 32767}

(***************************************************************************)
(* State.                                                                  *)
(***************************************************************************)
VARIABLES
  currentChannels,     \* the global array, indexed 0..15
  pc,                  \* position of main(): setup, then the steps of a pass
  lastSendMs,          \* uint32_t
  needToSendChannels,  \* bool
  currentMillis,       \* uint32_t, read at the top of the pass
  joystickAvailable,   \* bool
  clock,               \* what rpi_millis() returns now (uint32_t)
  cmdFile,             \* /tmp/crsf_command.txt: exists, lines
  txChannels,          \* the channels of the transport at its last send
  now,                 \* ms elapsed since the first pass (not wrapped)
  writes,              \* lines written by the producer so far
  mutated,             \* some write to the store was accepted in the loop
  span,                \* longest pass since the last emission
  pending,             \* first recognized command since the last emission
  sentAt,              \* value of now at the last emission, -1 before it
  emission,            \* the emission made by the pass that is ending
  call,                \* the last direct call (specifications of the units)
  channelsMutex,       \* std::mutex channelsMutex: "free" or its holder
  parsedIds,           \* the lines parseCommand has been given so far
  tpc,                 \* position of telemetryWriterWorker()
  tclock,              \* steady_clock, in ticks of 1/TicksPerMs ms
  lastUpdate,          \* lastUpdate of telemetryWriterWorker()
  delayMs,             \* the argument of its rpi_delay_ms
  telFile,             \* /tmp/crsf_telemetry.dat: exists, data
  cycles,              \* snapshots taken so far
  startAt,             \* steady_clock sampled by the last snapshot, -1 before
  observed,            \* what the external reader read last
  jsAxes               \* what js_poll() of this pass made readable

telVars ==
  <<tpc, tclock, lastUpdate, delayMs, telFile, cycles, startAt, observed>>

vars ==
  <<currentChannels, pc, lastSendMs, needToSendChannels, currentMillis,
    joystickAvailable, clock, cmdFile, txChannels, now, writes, mutated,
    span, pending, sentAt, emission, call, channelsMutex, parsedIds, telVars, jsAxes>>

NoFile == [exists |-> FALSE, lines |-> << >>]
NoPending == [parsed |-> -1, arrived |-> -1]
\* n: 0 when the pass sent nothing, 1 for the first emission of the run,
\* 2 for a later one; gap: ms since the emission before; span, parsed,
\* arrived: span and pending as they were when the channels were sent
NoEmission ==
  [n |-> 0, at |-> -1, gap |-> -1, span |-> 0, parsed |-> -1, arrived |-> -1]
NoAxes ==
  [axes |-> [i \in 0 .. 3 |-> 0], axesOk |-> [i \in 0 .. 3 |-> FALSE]]
NoTelFile == [exists |-> FALSE, data |-> << >>]
NotObserved == [done |-> FALSE, data |-> << >>]

\* telemetryWriterWorker() before std::thread starts it
TelemetryNotStarted ==
  /\ tpc = "start"
  /\ tclock = 0
  /\ lastUpdate = 0
  /\ delayMs = 0
  /\ telFile = NoTelFile
  /\ cycles = 0
  /\ startAt = -1
  /\ observed = NotObserved

NoCall ==
  [op |-> "none", channel |-> 0, value |-> 0, cmd |-> << >>,
   before |-> StaticChannels, ret |-> FALSE]

\* the globals as initialized before main() runs
Init ==
  /\ currentChannels = StaticChannels
  /\ pc = "setup"
  /\ lastSendMs = U32Of(0)
  /\ needToSendChannels = FALSE
  /\ currentMillis = U32Of(0)
  /\ joystickAvailable = FALSE
  /\ clock \in StartClocks
  /\ cmdFile = NoFile
  /\ txChannels = StaticChannels
  /\ now = 0
  /\ writes = 0
  /\ mutated = FALSE
  /\ span = 0
  /\ pending = NoPending
  /\ sentAt = -1
  /\ emission = NoEmission
  /\ call = NoCall
  /\ channelsMutex = "free"
  /\ parsedIds = {}
  /\ jsAxes = NoAxes
  /\ TelemetryNotStarted

(***************************************************************************)
(* main(): set-up before the loop.                                         *)
(***************************************************************************)
\* the block that sets the safe defaults, without its assignment
SetSafeDefaults_Skip(chs) == chs

\* "currentChannels[2] = Constants::DEFAULT_THROTTLE_VALUE"
SetSafeDefaults(chs) == [chs EXCEPT ![2] = DEFAULT_THROTTLE_VALUE]

MainSetup ==
  /\ pc = "setup"
  /\ joystickAvailable' \in BOOLEAN
  /\ lastSendMs' = U32Of(0)
  /\ needToSendChannels' = FALSE
  /\ currentChannels' = SetSafeDefaults(currentChannels)
  /\ pc' = "top"
  /\ UNCHANGED <<currentMillis, clock, cmdFile, txChannels, now, writes,
                 mutated, span, pending, sentAt, emission, call,
                 channelsMutex, parsedIds, telVars, jsAxes>>

(***************************************************************************)
(* One pass of the loop, step by step.                                     *)
(***************************************************************************)
\* const uint32_t currentMillis = rpi_millis();
ReadClock ==
  /\ pc = "top"
  /\ currentMillis' = clock
  /\ pc' = "open"
  /\ UNCHANGED <<currentChannels, lastSendMs, needToSendChannels,
                 joystickAvailable, clock, cmdFile, txChannels, now, writes,
                 mutated, span, pending, sentAt, emission, call,
                 channelsMutex, parsedIds, telVars, jsAxes>>

\* std::ifstream cmdFile(...); if (cmdFile.is_open())
OpenCmd ==
  /\ pc = "open"
  /\ pc' = IF cmdFile.exists THEN "read" ELSE "joystick"
  /\ UNCHANGED <<currentChannels, lastSendMs, needToSendChannels,
                 currentMillis, joystickAvailable, clock, cmdFile, txChannels,
                 now, writes, mutated, span, pending, sentAt, emission, call,
                 channelsMutex, parsedIds, telVars, jsAxes>>

\* while (std::getline(cmdFile, cmd)) if (parseCommand(cmd)) need = true;
\* st after line k, r being what parseCommand made of the line
DrainStep(st, r, k) ==
  [chs |-> r.chs,
   need |-> st.need \/ r.ret,
   writes |-> st.writes + r.writes,
   first |-> IF st.first = 0 /\ r.ret THEN k ELSE st.first]

RECURSIVE DrainLines(_, _, _, _)
DrainLines(st, lines, k, bits) ==
  IF k > Len(lines) THEN st
  ELSE DrainLines(DrainStep(st, parseCommand(st.chs, lines[k].text, bits), k),
                  lines, k + 1, bits)

\* the state of the loop once the lines are read
Drained(st) ==
  /\ currentChannels' = st.chs
  /\ needToSendChannels' = st.need
  /\ mutated' = (mutated \/ st.writes > 0)
  /\ pending' = IF pending.parsed = -1 /\ st.first > 0
                THEN [parsed |-> now, arrived |-> cmdFile.lines[st.first].at]
                ELSE pending

ReadCmd ==
  /\ pc = "read"
  /\ \E bits \in LONG_BITS :
       Drained(DrainLines([chs |-> currentChannels,
                           need |-> needToSendChannels,
                           writes |-> 0, first |-> 0],
                          cmdFile.lines, 1, bits))
  /\ parsedIds' =
       parsedIds \cup {cmdFile.lines[k].id : k \in DOMAIN cmdFile.lines}
  /\ pc' = "remove"
  /\ UNCHANGED <<lastSendMs, currentMillis, joystickAvailable, clock, cmdFile,
                 txChannels, now, writes, span, sentAt, emission, call,
                 channelsMutex, telVars, jsAxes>>

\* RemoveCmd without the std::remove: the file stays
RemoveCmd_Keep ==
  /\ pc = "remove"
  /\ cmdFile' = cmdFile
  /\ pc' = "joystick"
  /\ UNCHANGED <<currentChannels, lastSendMs, needToSendChannels,
                 currentMillis, joystickAvailable, clock, txChannels, now,
                 writes, mutated, span, pending, sentAt, emission, call,
                 channelsMutex, parsedIds, telVars, jsAxes>>

\* cmdFile.close(); std::remove("/tmp/crsf_command.txt");
RemoveCmd ==
  /\ pc = "remove"
  /\ cmdFile' = NoFile
  /\ pc' = "joystick"
  /\ UNCHANGED <<currentChannels, lastSendMs, needToSendChannels,
                 currentMillis, joystickAvailable, clock, txChannels, now,
                 writes, mutated, span, pending, sentAt, emission, call,
                 channelsMutex, parsedIds, telVars, jsAxes>>

\* the four mapped axes: safeSetChannel(4, axisToUs(axes[0])), ...
MapAxes(chs, axes, axesOk) ==
  LET c0 == IF axesOk[0]
            THEN safeSetChannel(chs, U32Of(4), axisToUs(axes[0])) ELSE chs
      c1 == IF axesOk[1]
            THEN safeSetChannel(c0, U32Of(3), axisToUs(ToInt16(-axes[1])))
            ELSE c0
      c2 == IF axesOk[2]
            THEN safeSetChannel(c1, U32Of(1), axisToUs(axes[2])) ELSE c1
  IN  IF axesOk[3]
      THEN safeSetChannel(c2, U32Of(2), axisToUs(ToInt16(-axes[3])))
      ELSE c2

\* getWorkMode() of a build in which the mode is "joystick"
getWorkMode_Joystick == "joystick"

getWorkMode == "manual"

\* what js_get_axis() can give for the four axes once js_poll() has run: no
\* axis, the four axes at their extremes and at the edge of the dead zone,
\* or yaw and pitch only
JsReadings ==
  {NoAxes,
   [axes |-> [i \in 0 .. 3 |-> CASE i = 0 -> JOYSTICK_AXIS_MAX
                                 [] i = 1 -> JOYSTICK_AXIS_MIN
                                 [] i = 2 -> JOYSTICK_DEADZONE
                                 [] OTHER -> -JOYSTICK_DEADZONE],
    axesOk |-> [i \in 0 .. 3 |-> TRUE]],
   [axes |-> [i \in 0 .. 3 |-> IF i = 0 THEN -JOYSTICK_DEADZONE ELSE 0],
    axesOk |-> [i \in 0 .. 3 |-> i \in {0, 3}]]}

\* "if (joystickAvailable) js_poll();" and the block
\* "if (getWorkMode() == "joystick" && joystickAvailable)"
Joystick ==
  /\ pc = "joystick"
  /\ IF joystickAvailable THEN jsAxes' \in JsReadings ELSE jsAxes' = jsAxes
  /\ IF getWorkMode = "joystick" /\ joystickAvailable
     THEN /\ currentChannels' =
               MapAxes(currentChannels, jsAxes'.axes, jsAxes'.axesOk)
          /\ mutated' = (mutated \/ \E i \in 0 .. 3 : jsAxes'.axesOk[i])
          /\ needToSendChannels' = TRUE
          /\ pending' = IF pending.parsed = -1
                        THEN [parsed |-> now, arrived |-> now]
                        ELSE pending
     ELSE UNCHANGED <<currentChannels, mutated, needToSendChannels, pending>>
  /\ pc' = "send"
  /\ UNCHANGED <<lastSendMs, currentMillis, joystickAvailable, clock, cmdFile,
                 txChannels, now, writes, span, sentAt, emission, call,
                 channelsMutex, parsedIds, telVars>>

\* ShouldSend with ">" in place of ">=" in the test of the period
ShouldSend_Strict(elapsed, need) ==
  \/ U32Ge(elapsed, CRSF_SEND_PERIOD_MS + 1)
  \/ need /\ U32Ge(elapsed, EXPEDITE_MIN_MS)

\* ShouldSend with the flag not tested in the second branch
ShouldSend_FlagNotTested(elapsed, need) ==
  \/ U32Ge(elapsed, CRSF_SEND_PERIOD_MS)
  \/ U32Ge(elapsed, EXPEDITE_MIN_MS)

\* ShouldSend with the 2 ms test of the second branch left out
ShouldSend_NoMinSpacing(elapsed, need) ==
  \/ U32Ge(elapsed, CRSF_SEND_PERIOD_MS)
  \/ need

\* ShouldSend with the second branch left out
ShouldSend_PeriodicOnly(elapsed, need) ==
  U32Ge(elapsed, CRSF_SEND_PERIOD_MS)

\* ShouldSend with 3 ms in place of 2 ms in the second branch
ShouldSend_ThreeMs(elapsed, need) ==
  \/ U32Ge(elapsed, CRSF_SEND_PERIOD_MS)
  \/ need /\ U32Ge(elapsed, EXPEDITE_MIN_MS + 1)

\* the two conditions under which the pass sends the channels
ShouldSend(elapsed, need) ==
  \/ U32Ge(elapsed, CRSF_SEND_PERIOD_MS)
  \/ need /\ U32Ge(elapsed, EXPEDITE_MIN_MS)

\* the periodic and the expedited send of the pass, up to the call of
\* crsfSendChannels(): the lock_guard is taken, the 16 channels are handed
\* to the transport with crsfSetChannel and the transport starts to send
SendChannels ==
  /\ pc = "send"
  /\ IF ShouldSend(U32Sub(currentMillis, lastSendMs), needToSendChannels)
     THEN /\ channelsMutex = "free"
          /\ channelsMutex' = "main"
          /\ txChannels' = currentChannels
          /\ pc' = "sending"
     ELSE /\ pc' = "sleep"
          /\ UNCHANGED <<channelsMutex, txChannels>>
  /\ jsAxes' = NoAxes
  /\ UNCHANGED <<currentChannels, lastSendMs, needToSendChannels,
                 currentMillis, joystickAvailable, clock, cmdFile, now, writes,
                 mutated, span, pending, sentAt, emission, call, parsedIds,
                 telVars>>

\* crsfSendChannels() returns; "lastSendMs = currentMillis;
\* needToSendChannels = false;" and the end of the block releases the lock
SendReturn ==
  /\ pc = "sending"
  /\ lastSendMs' = currentMillis
  /\ needToSendChannels' = FALSE
  /\ channelsMutex' = "free"
  /\ sentAt' = now
  /\ emission' = [n |-> IF sentAt = -1 THEN 1 ELSE 2,
                  at |-> now,
                  gap |-> IF sentAt = -1 THEN -1 ELSE now - sentAt,
                  span |-> span,
                  parsed |-> pending.parsed,
                  arrived |-> pending.arrived]
  /\ span' = 0
  /\ pending' = NoPending
  /\ pc' = "sleep"
  /\ UNCHANGED <<currentChannels, currentMillis, joystickAvailable, clock,
                 cmdFile, txChannels, now, writes, mutated, call, parsedIds,
                 telVars, jsAxes>>

\* rpi_delay_ms(1): the next pass starts d ms after this one
Sleep ==
  /\ pc = "sleep"
  /\ \E d \in 1 .. MaxStep :
       /\ now + d <= MaxNow
       /\ now' = now + d
       /\ clock' = U32Add(clock, d)
       /\ span' = IF d > span THEN d ELSE span
  /\ emission' = NoEmission
  /\ pc' = "top"
  /\ UNCHANGED <<currentChannels, lastSendMs, needToSendChannels,
                 currentMillis, joystickAvailable, cmdFile, txChannels,
                 writes, mutated, pending, sentAt, call,
                 channelsMutex, parsedIds, telVars, jsAxes>>

\* the external producer creates the command file or appends a line to it.
\* It runs at any moment; the moments that differ for the loop are before the
\* open, between the open and the read, between the read and the remove, and
\* after the remove (the other steps of a pass do not touch the file).
WriteCmd ==
  /\ pc \in {"open", "read", "remove", "joystick"}
  /\ writes < MaxWrites
  /\ \E text \in ProducerLines :
       cmdFile' = [exists |-> TRUE,
                   lines |-> Append(cmdFile.lines,
                                   [text |-> text, at |-> now,
                                    id |-> writes + 1])]
  /\ writes' = writes + 1
  /\ UNCHANGED <<currentChannels, pc, lastSendMs, needToSendChannels,
                 currentMillis, joystickAvailable, clock, txChannels, now,
                 mutated, span, pending, sentAt, emission, call,
                 channelsMutex, parsedIds, telVars, jsAxes>>

Next ==
  \/ MainSetup
  \/ ReadClock
  \/ OpenCmd
  \/ ReadCmd
  \/ RemoveCmd
  \/ Joystick
  \/ SendChannels
  \/ SendReturn
  \/ Sleep
  \/ WriteCmd

Spec == Init /\ [][Next]_vars

(***************************************************************************)
(* The units on their own: direct calls of safeSetChannel and of           *)
(* parseCommand on a store drawn from UnitStores.                          *)
(***************************************************************************)
UnitStores ==
  {SetSafeDefaults(StaticChannels),
   [SetSafeDefaults(StaticChannels) EXCEPT ![0] = 1200, ![15] = 2000]}

InitUnit ==
  /\ currentChannels \in UnitStores
  /\ pc = "unit"
  /\ lastSendMs = U32Of(0)
  /\ needToSendChannels = FALSE
  /\ currentMillis = U32Of(0)
  /\ joystickAvailable = FALSE
  /\ clock = U32Of(0)
  /\ cmdFile = NoFile
  /\ txChannels = StaticChannels
  /\ now = 0
  /\ writes = 0
  /\ mutated = FALSE
  /\ span = 0
  /\ pending = NoPending
  /\ sentAt = -1
  /\ emission = NoEmission
  /\ call = NoCall
  /\ channelsMutex = "free"
  /\ parsedIds = {}
  /\ jsAxes = NoAxes
  /\ TelemetryNotStarted

\* safeSetChannel(index, value), the index converted to unsigned int
CallSetChannel(index, value) ==
  /\ currentChannels' = safeSetChannel(currentChannels, U32FromInt(index), value)
  /\ call' = [op |-> "safeSetChannel", channel |-> index, value |-> value,
              cmd |-> << >>, before |-> currentChannels, ret |-> FALSE]
  /\ UNCHANGED <<pc, lastSendMs, needToSendChannels, currentMillis,
                 joystickAvailable, clock, cmdFile, txChannels, now, writes,
                 mutated, span, pending, sentAt, emission,
                 channelsMutex, parsedIds, telVars, jsAxes>>

NextStore == \E index \in IndexArgs, value \in ValueArgs : CallSetChannel(index, value)

SpecStore == InitUnit /\ [][NextStore]_vars

\* parseCommand(cmd), once on the store drawn
CallParseCommand(cmd, bits) ==
  /\ call.op = "none"
  /\ LET r == parseCommand(currentChannels, cmd, bits)
     IN  /\ currentChannels' = r.chs
         /\ call' = [op |-> "parseCommand", channel |-> 0, value |-> 0,
                     cmd |-> cmd, before |-> currentChannels, ret |-> r.ret]
  /\ UNCHANGED <<pc, lastSendMs, needToSendChannels, currentMillis,
                 joystickAvailable, clock, cmdFile, txChannels, now, writes,
                 mutated, span, pending, sentAt, emission,
                 channelsMutex, parsedIds, telVars, jsAxes>>

NextParse ==
  \E cmd \in ParseLines \cup OtherLines, bits \in LONG_BITS :
    CallParseCommand(cmd, bits)

SpecParse == InitUnit /\ [][NextParse]_vars

\* axisToUs(value), once, on any int16_t
CallAxisToUs ==
  /\ call.op = "none"
  /\ \E value \in JOYSTICK_AXIS_MIN .. JOYSTICK_AXIS_MAX :
       call' = [op |-> "axisToUs", value |-> value, us |-> axisToUs(value)]
  /\ UNCHANGED <<currentChannels, pc, lastSendMs, needToSendChannels,
                 currentMillis, joystickAvailable, clock, cmdFile, txChannels,
                 now, writes, mutated, span, pending, sentAt, emission,
                 channelsMutex, parsedIds, telVars, jsAxes>>

\* the four mapping statements of main(), once, on the axes read
CallMapAxes ==
  /\ call.op = "none"
  /\ \E axes \in [0 .. 3 -> AxisSamples], axesOk \in [0 .. 3 -> BOOLEAN] :
       /\ currentChannels' = MapAxes(currentChannels, axes, axesOk)
       /\ call' = [op |-> "MapAxes", axes |-> axes, axesOk |-> axesOk,
                   before |-> currentChannels]
  /\ UNCHANGED <<pc, lastSendMs, needToSendChannels, currentMillis,
                 joystickAvailable, clock, cmdFile, txChannels, now, writes,
                 mutated, span, pending, sentAt, emission,
                 channelsMutex, parsedIds, telVars, jsAxes>>

NextAxis == CallAxisToUs \/ CallMapAxes

SpecAxis == InitUnit /\ [][NextAxis]_vars

(***************************************************************************)
(* telemetryWriterWorker(), the thread main() starts and detaches, and a    *)
(* process that reads /tmp/crsf_telemetry.dat.  The steady clock is counted *)
(* in ticks, TicksPerMs to the millisecond.                                 *)
(***************************************************************************)
TicksPerMs == 2
MaxTelNow == 45
MaxOversleep == 1

\* duration_cast<milliseconds>(now - lastUpdate).count(): truncates
ElapsedMs(from, to) == (to - from) \div TicksPerMs

InitTelemetry ==
  /\ Init
  /\ clock = U32Of(0)

\* time passes while the thread is between two of its steps
Elapse ==
  /\ tpc \in {"loop", "open", "write"}
  /\ tclock < MaxTelNow * TicksPerMs
  /\ tclock' = tclock + 1
  /\ UNCHANGED <<tpc, lastUpdate, delayMs, telFile, cycles, startAt, observed>>
  /\ UNCHANGED <<currentChannels, pc, lastSendMs, needToSendChannels,
                 currentMillis, joystickAvailable, clock, cmdFile, txChannels,
                 now, writes, mutated, span, pending, sentAt, emission, call,
                 channelsMutex, parsedIds, jsAxes>>

\* crsfGetActive(), the return when it is null, "lastUpdate = now()"
TelStart ==
  /\ tpc = "start"
  /\ \E crsf \in {"nullptr", "active"} :
       IF crsf = "nullptr"
       THEN /\ tpc' = "done"
            /\ UNCHANGED lastUpdate
       ELSE /\ tpc' = "loop"
            /\ lastUpdate' = tclock
  /\ UNCHANGED <<tclock, delayMs, telFile, cycles, startAt, observed>>
  /\ UNCHANGED <<currentChannels, pc, lastSendMs, needToSendChannels,
                 currentMillis, joystickAvailable, clock, cmdFile, txChannels,
                 now, writes, mutated, span, pending, sentAt, emission, call,
                 channelsMutex, parsedIds, jsAxes>>

\* TelLoop with a fixed phase: "lastUpdate += period" in place of
\* "lastUpdate = now"
TelLoop_FixedPhase ==
  /\ tpc = "loop"
  /\ IF ElapsedMs(lastUpdate, tclock) < TELEMETRY_UPDATE_MS
     THEN /\ delayMs' = TELEMETRY_UPDATE_MS - ElapsedMs(lastUpdate, tclock)
          /\ tpc' = "delay"
          /\ UNCHANGED <<lastUpdate, cycles, startAt>>
     ELSE /\ lastUpdate' = lastUpdate + TELEMETRY_UPDATE_MS * TicksPerMs
          /\ startAt' = tclock
          /\ cycles' = cycles + 1
          /\ tpc' = "open"
          /\ UNCHANGED delayMs
  /\ UNCHANGED <<tclock, telFile, observed>>
  /\ UNCHANGED <<currentChannels, pc, lastSendMs, needToSendChannels,
                 currentMillis, joystickAvailable, clock, cmdFile, txChannels,
                 now, writes, mutated, span, pending, sentAt, emission, call,
                 channelsMutex, parsedIds, jsAxes>>

\* the top of the loop: now, elapsed, the test of the period; then either
\* the argument of rpi_delay_ms, or "lastUpdate = now" and the snapshot
\* (shared is filled from the getters; cycles numbers it)
TelLoop ==
  /\ tpc = "loop"
  /\ IF ElapsedMs(lastUpdate, tclock) < TELEMETRY_UPDATE_MS
     THEN /\ delayMs' = TELEMETRY_UPDATE_MS - ElapsedMs(lastUpdate, tclock)
          /\ tpc' = "delay"
          /\ UNCHANGED <<lastUpdate, cycles, startAt>>
     ELSE /\ lastUpdate' = tclock
          /\ startAt' = tclock
          /\ cycles' = cycles + 1
          /\ tpc' = "open"
          /\ UNCHANGED delayMs
  /\ UNCHANGED <<tclock, telFile, observed>>
  /\ UNCHANGED <<currentChannels, pc, lastSendMs, needToSendChannels,
                 currentMillis, joystickAvailable, clock, cmdFile, txChannels,
                 now, writes, mutated, span, pending, sentAt, emission, call,
                 channelsMutex, parsedIds, jsAxes>>

\* rpi_delay_ms(delayMs); continue;  the sleep lasts at least delayMs
TelDelay ==
  /\ tpc = "delay"
  /\ \E over \in 0 .. MaxOversleep :
       /\ tclock + delayMs * TicksPerMs + over <= MaxTelNow * TicksPerMs
       /\ tclock' = tclock + delayMs * TicksPerMs + over
  /\ delayMs' = 0
  /\ tpc' = "loop"
  /\ UNCHANGED <<lastUpdate, telFile, cycles, startAt, observed>>
  /\ UNCHANGED <<currentChannels, pc, lastSendMs, needToSendChannels,
                 currentMillis, joystickAvailable, clock, cmdFile, txChannels,
                 now, writes, mutated, span, pending, sentAt, emission, call,
                 channelsMutex, parsedIds, jsAxes>>

\* std::ofstream file(path, binary | trunc): the file is created or cut to
\* length 0; when the open fails the pass writes nothing
TelOpen ==
  /\ tpc = "open"
  /\ \E is_open \in BOOLEAN :
       IF is_open
       THEN /\ telFile' = [exists |-> TRUE, data |-> << >>]
            /\ tpc' = "write"
       ELSE /\ tpc' = "loop"
            /\ UNCHANGED telFile
  /\ UNCHANGED <<tclock, lastUpdate, delayMs, cycles, startAt, observed>>
  /\ UNCHANGED <<currentChannels, pc, lastSendMs, needToSendChannels,
                 currentMillis, joystickAvailable, clock, cmdFile, txChannels,
                 now, writes, mutated, span, pending, sentAt, emission, call,
                 channelsMutex, parsedIds, jsAxes>>

\* file.write(&shared, sizeof(shared)); file.close();  the record is smaller
\* than the stream's buffer and reaches the file in one write, at the close
TelWrite ==
  /\ tpc = "write"
  /\ telFile' = [exists |-> TRUE, data |-> <<cycles>>]
  /\ tpc' = "loop"
  /\ UNCHANGED <<tclock, lastUpdate, delayMs, cycles, startAt, observed>>
  /\ UNCHANGED <<currentChannels, pc, lastSendMs, needToSendChannels,
                 currentMillis, joystickAvailable, clock, cmdFile, txChannels,
                 now, writes, mutated, span, pending, sentAt, emission, call,
                 channelsMutex, parsedIds, jsAxes>>

\* another process opens the file and reads all of it in one pass
ReadTelemetry ==
  /\ telFile.exists
  /\ observed' = [done |-> TRUE, data |-> telFile.data]
  /\ UNCHANGED <<tpc, tclock, lastUpdate, delayMs, telFile, cycles, startAt>>
  /\ UNCHANGED <<currentChannels, pc, lastSendMs, needToSendChannels,
                 currentMillis, joystickAvailable, clock, cmdFile, txChannels,
                 now, writes, mutated, span, pending, sentAt, emission, call,
                 channelsMutex, parsedIds, jsAxes>>

NextTelemetry ==
  \/ TelStart
  \/ TelLoop
  \/ TelDelay
  \/ TelOpen
  \/ TelWrite
  \/ Elapse
  \/ ReadTelemetry

SpecTelemetry == InitTelemetry /\ [][NextTelemetry]_vars

(***************************************************************************)
(* Properties.                                                             *)
(***************************************************************************)
InRange(v) == v >= 1000 /\ v <= 2000
ValidIndex(i) == i >= 1 /\ i <= 16
SafeDefaults == [i \in 0 .. 15 |-> IF i = 2 THEN 1000 ELSE 1500]

\* C1: in every reachable state of the program each of the 16 stored
\* channel values lies in [1000,2000].
C1_ChannelsInRange ==
  \A i \in 0 .. 15 : InRange(currentChannels[i])

\* C1 witness: the loop has applied a command and sent the channels.
C1_Witness ==
  /\ mutated
  /\ emission.n > 0
  /\ currentChannels[0] = 1200
  /\ txChannels[0] = 1200

\* C2: a call setChannel(index, value) with index outside [1,16] or value
\* outside [1000,2000] leaves all 16 stored channels unchanged.
C2_RejectedLeavesStore ==
  (call.op = "safeSetChannel"
     /\ (~ValidIndex(call.channel) \/ ~InRange(call.value)))
  => currentChannels = call.before

\* C2 witness: a call with a negative index and a valid value was made.
C2_Witness ==
  /\ call.op = "safeSetChannel"
  /\ call.channel = -1
  /\ call.value = 1700
  /\ currentChannels = call.before

\* C3: setChannel(i, x) with i in [1,16] and x in [1000,2000] followed by a
\* read yields x at position i-1 and the other 15 positions as before.
C3_RoundTrip ==
  (call.op = "safeSetChannel" /\ ValidIndex(call.channel) /\ InRange(call.value))
  => /\ currentChannels[call.channel - 1] = call.value
     /\ \A j \in 0 .. 15 :
          j # call.channel - 1 => currentChannels[j] = call.before[j]

\* C3 witness: channel 16 was set to a value it did not hold.
C3_Witness ==
  /\ call.op = "safeSetChannel"
  /\ call.channel = 16
  /\ call.value = 1700
  /\ call.before[15] # 1700
  /\ currentChannels[15] = 1700

\* C4: once the loop runs and until a mutation is applied, channel 3 reads
\* 1000 and every other channel 1500, and so do the channels of every
\* emission made until then.
C4_SafeDefaultsFirst ==
  (pc # "setup" /\ ~mutated)
  => /\ currentChannels = SafeDefaults
     /\ sentAt # -1 => txChannels = SafeDefaults

\* C4 witness: an emission was made before any mutation.
C4_Witness ==
  /\ ~mutated
  /\ emission.n = 1
  /\ txChannels[2] = 1000
  /\ txChannels[3] = 1500

\* C5: a pass at which at least 10 ms have elapsed since the last recorded
\* emission sends the channels (so a pass that sent nothing is less than
\* 10 ms after it), with or without the flag; and when the passes are at
\* most 1 ms apart two consecutive emissions are at most 10 ms apart.
C5_PeriodicGuarantee ==
  /\ (pc = "sleep" /\ emission.n = 0)
       => /\ ~U32Ge(U32Sub(currentMillis, lastSendMs), CRSF_SEND_PERIOD_MS)
          /\ sentAt # -1 => now - sentAt < 10
  /\ (emission.n = 2 /\ emission.span <= 1) => emission.gap <= 10

\* C5 witness: a pass 11 ms after the last emission sent the channels with
\* no command pending.
C5_Witness ==
  /\ emission.n = 2
  /\ emission.gap = 11
  /\ emission.parsed = -1

\* C6 as claimed: with passes 1 ms apart and no command recognized, the
\* next emission is exactly 10 ms after the loop's first pass or after the
\* emission before.
C6_AsClaimed ==
  (emission.n > 0 /\ emission.parsed = -1 /\ emission.span <= 1)
  => IF emission.n = 1 THEN emission.at = 10 ELSE emission.gap = 10

\* C6 amended: with passes 1 ms apart and no command recognized, the next
\* emission after an emission is exactly 10 ms after it; the first emission
\* of a run is made by the first pass at which the clock reads at least 10
\* (the loop's first pass when it already does).
C6_TenMsAfterEmission ==
  (emission.n > 0 /\ emission.parsed = -1 /\ emission.span <= 1)
  => IF emission.n = 1
     THEN /\ U32Ge(currentMillis, 10)
          /\ emission.at = 0 \/ currentMillis = U32Of(10)
     ELSE emission.gap = 10

\* C6 witness: an emission 10 ms after the one before, passes 1 ms apart,
\* no command.
C6_Witness ==
  /\ emission.n = 2
  /\ emission.gap = 10
  /\ emission.span = 1
  /\ emission.parsed = -1

\* C7: two consecutive emissions are at least 2 ms apart.
C7_MinSpacing ==
  emission.n = 2 => emission.gap >= 2

\* C7 witness: an expedited emission 2 ms after the one before.
C7_Witness ==
  /\ emission.n = 2
  /\ emission.gap = 2
  /\ emission.parsed # -1

IsInteger(s) ==
  LET b == IF Len(s) > 0 /\ s[1] \in {"+", "-"} THEN 2 ELSE 1
  IN  /\ b <= Len(s)
      /\ \A i \in b .. Len(s) : IsDigit(s[i])

\* a well-formed pair idx=val with idx in [1,16] and val in [1000,2000]
GoodPair(token) ==
  LET pos == find(token, "=")
  IN  /\ pos # -1
      /\ IsInteger(SubstrTo(token, pos))
      /\ IsInteger(SubstrFrom(token, pos + 1))
      /\ ~stoi(SubstrTo(token, pos)).thrown
      /\ ~stoi(SubstrFrom(token, pos + 1)).thrown
      /\ ValidIndex(stoi(SubstrTo(token, pos)).val)
      /\ InRange(stoi(SubstrFrom(token, pos + 1)).val)

RECURSIVE GoodPairsApplied(_, _, _)
GoodPairsApplied(chs, toks, k) ==
  IF k > Len(toks) THEN chs
  ELSE IF GoodPair(toks[k])
  THEN LET pos == find(toks[k], "=")
       IN  GoodPairsApplied(
             [chs EXCEPT ![stoi(SubstrTo(toks[k], pos)).val - 1] =
                           stoi(SubstrFrom(toks[k], pos + 1)).val],
             toks, k + 1)
  ELSE GoodPairsApplied(chs, toks, k + 1)

\* the first word of a line, empty for a blank line
FirstToken(cmd) == IF Tokens(cmd) = << >> THEN << >> ELSE Tokens(cmd)[1]

\* C9: a setChannels line applies each well-formed pair in range, left to
\* right, skips every malformed or out-of-range pair, and is recognized.
C9_AsClaimed ==
  (call.op = "parseCommand" /\ FirstToken(call.cmd) = kwSetChannels)
  => /\ call.ret
     /\ currentChannels = GoodPairsApplied(call.before, Tokens(call.cmd), 2)

\* C10: a setChannel line mutates the store iff the keyword is followed by
\* exactly two integer tokens idx in [1,16] and val in [1000,2000], and then
\* exactly channel idx becomes val.
C10_AsClaimed ==
  (call.op = "parseCommand" /\ FirstToken(call.cmd) = kwSetChannel)
  => LET toks == Tail(Tokens(call.cmd))
     IN  IF /\ Len(toks) = 2
            /\ IsInteger(toks[1]) /\ IsInteger(toks[2])
            /\ ~stoi(toks[1]).thrown /\ ~stoi(toks[2]).thrown
            /\ ValidIndex(stoi(toks[1]).val) /\ InRange(stoi(toks[2]).val)
         THEN currentChannels =
                [call.before EXCEPT ![stoi(toks[1]).val - 1] = stoi(toks[2]).val]
         ELSE currentChannels = call.before

\* C11: a line that is blank, starts with '#', or whose first token is not
\* exactly setChannels, setChannel, sendChannels or setMode leaves the 16
\* channels unchanged and does not set the expedite flag.
C11_AsClaimed ==
  (/\ call.op = "parseCommand"
   /\ \/ Tokens(call.cmd) = << >>
      \/ call.cmd[1] = "#"
      \/ FirstToken(call.cmd) \notin
           {kwSetChannels, kwSetChannel, kwSendChannels, kwSetMode})
  => /\ currentChannels = call.before
     /\ ~call.ret

Abs(i) == IF i < 0 THEN -i ELSE i
Clamp(i) == IF i < 1000 THEN 1000 ELSE IF i > 2000 THEN 2000 ELSE i

\* q is the quotient a / b truncated toward zero (b > 0): the largest
\* magnitude not exceeding the exact quotient, with the sign of a
IsTruncQuot(q, a, b) ==
  /\ Abs(q) * b <= Abs(a)
  /\ Abs(a) < (Abs(q) + 1) * b
  /\ (a >= 0 => q >= 0)
  /\ (a <= 0 => q <= 0)

\* C16: for every raw sample v in [-32768,32767] axisToUs(v) is 1500 when
\* |v| < 100 and otherwise 1500 + trunc((v*500)/32768), truncated toward
\* zero, clamped to [1000,2000]; so the result is always in [1000,2000].
C16_MapAxis ==
  call.op = "axisToUs" =>
    /\ Abs(call.value) < 100 => call.us = 1500
    /\ Abs(call.value) >= 100 =>
         \E q \in -500 .. 500 :
           /\ IsTruncQuot(q, call.value * 500, 32768)
           /\ call.us = Clamp(1500 + q)
    /\ InRange(call.us)

\* C16 witness: a negative sample just outside the dead zone, where the
\* quotient -50000/32768 truncates to -1 (and would round down to -2).
C16_Witness ==
  /\ call.op = "axisToUs"
  /\ call.value = -100
  /\ call.us = 1499

\* C17: on the inverted axes (throttle to channel 3, pitch to channel 2) the
\* value written is the mapping of the mathematical negation of the sample,
\* for every sample including -32768.
C17_AsClaimed ==
  call.op = "MapAxes" =>
    /\ call.axesOk[1] =>
         currentChannels[2] = axisToUs(-call.axes[1])
    /\ call.axesOk[3] =>
         currentChannels[1] = axisToUs(-call.axes[3])

C19_AsClaimed ==
  \A i \in 1 .. writes :
    \/ i \in parsedIds
    \/ \E k \in DOMAIN cmdFile.lines : cmdFile.lines[k].id = i

\* C13: the lock of the channel store is never held while the transport's
\* sendChannels is in progress.
C13_AsClaimed ==
  pc = "sending" => channelsMutex = "free"

\* C18 as claimed: in every pass in which the input device is present the
\* joystick step writes the mapping of each axis that was read successfully
\* (yaw to channel 4, throttle to 3, roll to 1, pitch to 2) before the send
\* step.
C18_AsClaimed ==
  [][(pc = "joystick" /\ pc' = "send" /\ joystickAvailable) =>
       currentChannels' =
         MapAxes(currentChannels, jsAxes'.axes, jsAxes'.axesOk)]_vars

\* C18: the mapping runs only when getWorkMode() is "joystick"; it returns
\* "manual", so the joystick step of every pass, device present or not,
\* leaves the channels and the expedite flag as they were.
C18_ManualModeMapsNothing ==
  [][(pc = "joystick" /\ pc' = "send") =>
       UNCHANGED <<currentChannels, needToSendChannels>>]_vars

\* C18 witness: the device is present, the poll of this pass made the four
\* axes readable away from the centre, and the pass is at its send step with
\* the safe defaults still in the store.
C18_Witness ==
  /\ joystickAvailable
  /\ pc = "send"
  /\ \A i \in 0 .. 3 : jsAxes.axesOk[i]
  /\ jsAxes.axes[0] = JOYSTICK_AXIS_MAX
  /\ currentChannels = SafeDefaults

C12_AsClaimed ==
  observed.done => \E k \in 1 .. cycles : observed.data = <<k>>

\* C15: the steady-clock samples of two consecutive snapshots are at least
\* 20 ms apart, a snapshot is taken without waiting once 20 ms have gone by
\* since the one before, and otherwise the wait asked for, added to the time
\* gone by since the one before, makes 20 ms (up to the millisecond the
\* elapsed time is truncated to).
C15_RateLimited ==
  [][/\ (tpc = "loop" /\ tpc' = "open") =>
          /\ startAt' = tclock
          /\ startAt # -1 =>
               tclock - startAt >= TELEMETRY_UPDATE_MS * TicksPerMs
     /\ (tpc = "loop" /\ tpc' = "delay" /\ startAt # -1) =>
          /\ tclock - startAt < TELEMETRY_UPDATE_MS * TicksPerMs
          /\ delayMs' * TicksPerMs + (tclock - startAt)
               >= TELEMETRY_UPDATE_MS * TicksPerMs
          /\ delayMs' * TicksPerMs + (tclock - startAt)
               < (TELEMETRY_UPDATE_MS + 1) * TicksPerMs]_vars

\* C15 witness: the second snapshot and its write took 3 ms, so the thread
\* asks for a wait of 17 ms.
C15_Witness ==
  /\ cycles = 2
  /\ tpc = "delay"
  /\ delayMs = 17
  /\ tclock - startAt = 3 * TicksPerMs
====
